---- MODULE Spec2Model ----
(***************************************************************************)
(* Model of app.py (email extractor): column resolution, per-row email     *)
(* extraction with order-preserving de-duplication, the write of the       *)
(* annotated workbook to the fixed OUTPUT_FILE, the best-effort formatting *)
(* pass, and the /reset route.                                             *)
(*                                                                         *)
(* Text is a sequence of one-character strings, so that lower(), strip(),  *)
(* substring tests, the regular expression and "\n".join are computed.     *)
(* A column label is [str, v]: read_excel(dtype=str) converts the data     *)
(* cells only, so a header cell that holds a number stays a number         *)
(* (str = FALSE), and only text labels have .lower().                      *)
(* A cell is [null, v]: null is the NaN pandas gives an empty cell.        *)
(* A request carries io: whether read_excel can parse the upload, and      *)
(* which step of the formatting pass raises, if any.                       *)
(***************************************************************************)
EXTENDS Integers, Sequences, FiniteSets, TLC

VARIABLES inp, loc, ret, art, written, page

vars == <<inp, loc, ret, art, written, page>>

-----------------------------------------------------------------------------
(* Bounds of the input space *)

MaxCols == 3

MaxRows == 2

MaxMatches == 3

MaxLifeCols == 2

MaxLifeRows == 1

-----------------------------------------------------------------------------
(* Characters and str methods *)

UPPER == <<"A", "B", "C", "D", "E", "F", "G", "H", "I", "J", "K", "L", "M", "N", "O", "P", "Q", "R", "S", "T", "U", "V", "W", "X", "Y", "Z">>

LOWER == <<"a", "b", "c", "d", "e", "f", "g", "h", "i", "j", "k", "l", "m", "n", "o", "p", "q", "r", "s", "t", "u", "v", "w", "x", "y", "z">>

DIGITS == {"0", "1", "2", "3", "4", "5", "6", "7", "8", "9"}

Letters == {UPPER[i] : i \in 1..Len(UPPER)} \cup {LOWER[i] : i \in 1..Len(LOWER)}

LowerChar(c) ==
    IF \E i \in 1..Len(UPPER) : UPPER[i] = c
    THEN LOWER[CHOOSE i \in 1..Len(UPPER) : UPPER[i] = c]
    ELSE c

\* str.lower()
Lower(s) == [i \in 1..Len(s) |-> LowerChar(s[i])]

\* `sub in s` on str
Contains(sub, s) ==
    \E i \in 0..(Len(s) - Len(sub)) : SubSeq(s, i + 1, i + Len(sub)) = sub

\* str.strip() (blanks)
Strip(s) ==
    LET keep == {i \in 1..Len(s) : s[i] # " "}
    IN  IF keep = {} THEN <<>>
        ELSE SubSeq(s, CHOOSE i \in keep : \A j \in keep : i <= j,
                       CHOOSE i \in keep : \A j \in keep : j <= i)

-----------------------------------------------------------------------------
(* Program constants *)

DEFAULT_COLUMN == <<"D", "e", "s", "c", "r", "i", "p", "t", "i", "o", "n">>

HINT_ORGANISATION == <<"o", "r", "g", "a", "n", "i", "s", "a", "t", "i", "o", "n">>

HINT_INFO == <<"i", "n", "f", "o">>

HINT_DESCRIPTION == <<"d", "e", "s", "c", "r", "i", "p", "t", "i", "o", "n">>

EMAILS == <<"E", "m", "a", "i", "l", "s">>

EMAILS_WIDTH == 30

TLD_MIN == 2

-----------------------------------------------------------------------------
(* Values *)

Text(s) == [str |-> TRUE, v |-> s]

Number(s) == [str |-> FALSE, v |-> s]

NoName == [str |-> FALSE, v |-> <<>>]

NaN == [null |-> TRUE, v |-> <<>>]

Str(s) == [null |-> FALSE, v |-> s]

Returned(col) == [kind |-> "return", exc |-> "", col |-> col]

Raised(exc) == [kind |-> "raise", exc |-> exc, col |-> NoName]

NotRun == [kind |-> "none", exc |-> "", col |-> NoName]

-----------------------------------------------------------------------------
(* Column resolution, process_excel lines 24-39 *)

HasLower(cols) == \A i \in 1..Len(cols) : cols[i].str

KeyIndex(items, k) ==
    IF \E i \in 1..Len(items) : items[i].k = k
    THEN CHOOSE i \in 1..Len(items) : items[i].k = k
    ELSE 0

\* dict assignment d[k] = v: a new key goes last, an old key keeps its place
DictPut(items, k, v) ==
    IF KeyIndex(items, k) = 0
    THEN Append(items, [k |-> k, v |-> v])
    ELSE [items EXCEPT ![KeyIndex(items, k)].v = v]

RECURSIVE ColsLower(_)
\* {c.lower(): c for c in df.columns}, as the items in dict order
ColsLower(cols) ==
    IF cols = <<>> THEN <<>>
    ELSE LET c == cols[Len(cols)]
         IN  DictPut(ColsLower(SubSeq(cols, 1, Len(cols) - 1)), Lower(c.v), c)

IsHint(k) ==
    \/ Contains(HINT_ORGANISATION, k)
    \/ Contains(HINT_INFO, k)
    \/ Contains(HINT_DESCRIPTION, k)

\* the for loop with break: index of the first item whose key has a hint, 0 if none
GuessIndex(items) ==
    LET hits == {i \in 1..Len(items) : IsHint(items[i].k)}
    IN  IF hits = {} THEN 0 ELSE CHOOSE i \in hits : \A j \in hits : i <= j

\* a resolver that answers the default label for a sheet without columns
FirstColumnDefault(cols) ==
    IF cols = <<>> THEN Returned(Text(DEFAULT_COLUMN)) ELSE Returned(cols[1])

FirstColumn(cols) ==
    IF cols = <<>> THEN Raised("IndexError") ELSE Returned(cols[1])

ResolveColumn(cols, name) ==
    IF ~HasLower(cols) THEN Raised("AttributeError")
    ELSE LET cols_lower == ColsLower(cols)
             key == Lower(name)
             g == GuessIndex(cols_lower)
         IN  IF KeyIndex(cols_lower, key) # 0
             THEN Returned(cols_lower[KeyIndex(cols_lower, key)].v)
             ELSE IF g # 0 /\ cols_lower[g].v.v # <<>>
                  THEN Returned(cols_lower[g].v)
                  ELSE FirstColumn(cols)

-----------------------------------------------------------------------------
(* find_emails, lines 13-18 *)

IsLocalChar(c) == c \in Letters \cup DIGITS \cup {".", "_", "%", "+", "-"}

IsDomainChar(c) == c \in Letters \cup DIGITS \cup {".", "-"}

IsLetter(c) == c \in Letters

\* last index of the longest run of characters of class cls that starts at i
\* (i - 1 when s[i] is not of the class)
RunEnd(s, i, cls) ==
    LET stops == {j \in i..Len(s) :
                     IF cls = "local" THEN ~IsLocalChar(s[j])
                     ELSE IF cls = "domain" THEN ~IsDomainChar(s[j])
                     ELSE ~IsLetter(s[j])}
    IN  IF stops = {} THEN Len(s)
        ELSE (CHOOSE j \in stops : \A m \in stops : j <= m) - 1

\* End of the match of EMAIL_REGEX that starts at i, 0 when there is none.
\* Each + is greedy: the local part is the whole run (only "@" may follow
\* it), and the domain gives back characters until "." and TLD_MIN letters
\* follow, so the last such "." of the domain run is taken.
MatchEnd(s, i) ==
    LET l == RunEnd(s, i, "local")
        d == RunEnd(s, l + 2, "domain")
        dots == {p \in (l + 2)..(d - 1) :
                    /\ s[p + 1] = "."
                    /\ RunEnd(s, p + 2, "letter") >= p + 1 + TLD_MIN}
    IN  IF l < i \/ l + 1 > Len(s) THEN 0
        ELSE IF s[l + 1] # "@" THEN 0
        ELSE IF dots = {} THEN 0
        ELSE RunEnd(s, (CHOOSE p \in dots : \A q \in dots : q <= p) + 2, "letter")

RECURSIVE FindAll(_, _)
\* re.findall: leftmost, non-overlapping matches from position i on
FindAll(s, i) ==
    IF i > Len(s) THEN <<>>
    ELSE IF MatchEnd(s, i) = 0 THEN FindAll(s, i + 1)
    ELSE <<SubSeq(s, i, MatchEnd(s, i))>> \o FindAll(s, MatchEnd(s, i) + 1)

find_emails(text) == IF text.null THEN <<>> ELSE FindAll(text.v, 1)

-----------------------------------------------------------------------------
(* Building the Emails column, lines 42-56 *)

RECURSIVE DedupFolded(_)
\* a de-duplication that compares addresses without regard to case
DedupFolded(emails) ==
    IF emails = <<>> THEN <<>>
    ELSE LET seen == DedupFolded(SubSeq(emails, 1, Len(emails) - 1))
             e == emails[Len(emails)]
         IN  IF \E i \in 1..Len(seen) : Lower(seen[i]) = Lower(e) THEN seen ELSE Append(seen, e)

RECURSIVE Dedup(_)
\* seen = []; for e in emails: if e not in seen: seen.append(e)
Dedup(emails) ==
    IF emails = <<>> THEN <<>>
    ELSE LET seen == Dedup(SubSeq(emails, 1, Len(emails) - 1))
             e == emails[Len(emails)]
         IN  IF \E i \in 1..Len(seen) : seen[i] = e THEN seen ELSE Append(seen, e)

RECURSIVE JoinNewline(_)
\* "\n".join(seen)
JoinNewline(seen) ==
    IF seen = <<>> THEN <<>>
    ELSE IF Len(seen) = 1 THEN seen[1]
    ELSE seen[1] \o <<"\n">> \o JoinNewline(Tail(seen))

ColumnIndex(cols, col) == CHOOSE j \in 1..Len(cols) : cols[j] = col

\* row.get(description_column, "")
RowGet(cols, row, col) ==
    IF \E j \in 1..Len(cols) : cols[j] = col THEN row[ColumnIndex(cols, col)] ELSE Str(<<>>)

\* one pass of the loop body: the value appended to emails_list
EmailsCell(emails) == IF emails # <<>> THEN JoinNewline(Dedup(emails)) ELSE <<>>

EmailsList(cols, rows, col) ==
    [i \in 1..Len(rows) |-> EmailsCell(find_emails(RowGet(cols, rows[i], col)))]

\* an assignment that leaves a row without addresses empty (NaN)
SetEmailsNull(cols, rows, emails_list) ==
    LET value(i) == IF emails_list[i] = <<>> THEN NaN ELSE Str(emails_list[i])
    IN  IF \E j \in 1..Len(cols) : cols[j] = Text(EMAILS)
        THEN [cols |-> cols,
              rows |-> [i \in 1..Len(rows) |->
                          [rows[i] EXCEPT ![ColumnIndex(cols, Text(EMAILS))] = value(i)]]]
        ELSE [cols |-> Append(cols, Text(EMAILS)),
              rows |-> [i \in 1..Len(rows) |-> Append(rows[i], value(i))]]

\* df["Emails"] = emails_list: an existing label is assigned in place,
\* a new label is added as the last column
SetEmails(cols, rows, emails_list) ==
    IF \E j \in 1..Len(cols) : cols[j] = Text(EMAILS)
    THEN [cols |-> cols,
          rows |-> [i \in 1..Len(rows) |->
                      [rows[i] EXCEPT ![ColumnIndex(cols, Text(EMAILS))] = Str(emails_list[i])]]]
    ELSE [cols |-> Append(cols, Text(EMAILS)),
          rows |-> [i \in 1..Len(rows) |-> Append(rows[i], Str(emails_list[i]))]]

-----------------------------------------------------------------------------
(* The workbook at OUTPUT_FILE, lines 59-83 *)

Absent == [kind |-> "absent", header |-> <<>>, cells |-> <<>>, wrap |-> {}, width |-> 0]

Corrupt == [kind |-> "corrupt", header |-> <<>>, cells |-> <<>>, wrap |-> {}, width |-> 0]

\* an xlsx cell: NaN and "" are both written as an empty cell
SheetCell(c) == IF c.null \/ c.v = <<>> THEN NaN ELSE c

\* df.to_excel(OUTPUT_FILE, index=False): a fresh workbook, header row first
ToExcel(df) ==
    [kind |-> "xlsx",
     header |-> [j \in 1..Len(df.cols) |-> df.cols[j].v],
     cells |-> [i \in 1..Len(df.rows) |->
                  [j \in 1..Len(df.cols) |-> SheetCell(df.rows[i][j])]],
     wrap |-> {},
     width |-> 0]

\* first sheet column whose row-1 value is "Emails", 0 if none
EmailsColumn(book) ==
    LET hits == {j \in 1..Len(book.header) : book.header[j] = EMAILS}
    IN  IF hits = {} THEN 0 ELSE CHOOSE j \in hits : \A m \in hits : j <= m

\* lines 71-80: wrap every non-empty cell of the column (sheet row 1 is the
\* header), set the column width, save over OUTPUT_FILE
Format(book) ==
    LET c == EmailsColumn(book)
    IN  IF c = 0 THEN book
        ELSE [book EXCEPT
                !.wrap = {1} \cup {i + 1 : i \in {r \in 1..Len(book.cells) : ~book.cells[r][c].null}},
                !.width = EMAILS_WIDTH]

\* the try block, lines 62-83; fmt names the step that raises ("none": no
\* step does).  Every exception is caught.  wb.save writes the archive over
\* OUTPUT_FILE in place, so a save that raises part-way leaves a broken file.
FormattingPass(book, fmt) ==
    IF fmt = "none" THEN Format(book)
    ELSE IF fmt = "save_partial" THEN Corrupt
    ELSE book

\* process_excel(filepath, description_column_name) on the workbook at
\* filepath (file), with io naming where the file system or openpyxl fails.
\* Result: what it returns or raises, its locals, and OUTPUT_FILE afterwards.
process_excel(file, description_column_name, io, old) ==
    LET resolved == ResolveColumn(file.cols, description_column_name)
        emails_list == EmailsList(file.cols, file.rows, resolved.col)
        df == SetEmails(file.cols, file.rows, emails_list)
        none == [description_column |-> NoName, emails_list |-> <<>>, df |-> [cols |-> <<>>, rows |-> <<>>]]
        locals == [description_column |-> resolved.col, emails_list |-> emails_list, df |-> df]
    IN  IF io.read # "ok"
        THEN [ret |-> Raised("ValueError"), loc |-> none, art |-> old, wrote |-> FALSE]
        ELSE IF resolved.kind = "raise"
        THEN [ret |-> resolved, loc |-> none, art |-> old, wrote |-> FALSE]
        ELSE [ret |-> Returned(resolved.col), loc |-> locals,
              art |-> FormattingPass(ToExcel(df), io.fmt), wrote |-> TRUE]

-----------------------------------------------------------------------------
(* Requests *)

NoLocals ==
    [description_column |-> NoName, emails_list |-> <<>>, df |-> [cols |-> <<>>, rows |-> <<>>]]

NoFile == [cols |-> <<>>, rows |-> <<>>]

NoData == [any |-> FALSE, header |-> <<>>, cells |-> <<>>]

\* the tabular content of a workbook
DataOf(book) == [any |-> TRUE, header |-> book.header, cells |-> book.cells]

AllOk == [read |-> "ok", fmt |-> "none"]

\* where a request meets a failure: read_excel cannot parse the upload, or
\* a step of the formatting pass raises
Failures ==
    {AllOk, [read |-> "fail", fmt |-> "none"]}
    \cup {[read |-> "ok", fmt |-> f] : f \in {"load", "locate", "align", "save", "save_partial"}}

\* index(), POST, lines 92-115
Post(i) ==
    LET desc_col == IF Strip(i.form) # <<>> THEN Strip(i.form) ELSE DEFAULT_COLUMN
        r == process_excel(i.file, desc_col, i.io, art)
    IN  /\ inp' = i
        /\ IF ~i.uploaded
           THEN /\ page' = "index_error"
                /\ ret' = NotRun
                /\ loc' = NoLocals
                /\ UNCHANGED <<art, written>>
           ELSE /\ ret' = r.ret
                /\ loc' = r.loc
                /\ art' = r.art
                /\ written' = IF r.wrote THEN DataOf(ToExcel(r.loc.df)) ELSE written
                /\ page' = IF r.ret.kind = "raise" THEN "error"
                           ELSE IF r.art.kind = "xlsx" THEN "preview"
                           ELSE "server_error"

\* reset_output(), lines 127-134; rm = "fail": os.remove raises (caught)
Reset(rm) ==
    LET exists == art.kind # "absent"
    IN  /\ page' = IF exists /\ rm = "fail" THEN "reset_error" ELSE "reset"
        /\ art' = IF exists /\ rm = "fail" THEN art ELSE Absent
        /\ written' = IF exists /\ rm = "fail" THEN written ELSE NoData
        /\ UNCHANGED <<inp, loc, ret>>

-----------------------------------------------------------------------------
(* Input spaces *)

RECURSIVE SeqsUpTo(_, _)
SeqsUpTo(S, n) ==
    IF n = 0 THEN {<<>>}
    ELSE LET shorter == SeqsUpTo(S, n - 1)
         IN  shorter \cup {Append(q, x) : q \in {t \in shorter : Len(t) = n - 1}, x \in S}

Distinct(q) == \A i, j \in 1..Len(q) : i # j => q[i] # q[j]

\* pandas makes repeated header texts unique, so labels are distinct
Headers(names, n) == {h \in SeqsUpTo(names, n) : Distinct(h)}

N_DESCRIPTION_UC == <<"D", "E", "S", "C", "R", "I", "P", "T", "I", "O", "N">>

N_OrgInfo == <<"O", "r", "g", "a", "n", "i", "s", "a", "t", "i", "o", "n", " ", "I", "n", "f", "o">>

N_Info == <<"I", "n", "f", "o">>

N_JobDesc == <<"J", "o", "b", " ", "d", "e", "s", "c", "r", "i", "p", "t", "i", "o", "n">>

N_X == <<"X">>

N_Y == <<"Y">>

N_2020 == <<"2", "0", "2", "0">>

F_description == <<"d", "e", "s", "c", "r", "i", "p", "t", "i", "o", "n">>

F_x_padded == <<" ", "x", " ">>

F_Notes == <<"N", "o", "t", "e", "s">>

E_ax == <<"a", "@", "x", ".", "c", "o">>

E_Ax == <<"A", "@", "x", ".", "c", "o">>

E_by == <<"b", "@", "y", ".", "c", "o">>

W_short == <<"c", "@", "d", ".", "e">>

TextNames ==
    {Text(DEFAULT_COLUMN), Text(N_DESCRIPTION_UC), Text(N_OrgInfo), Text(N_Info),
     Text(N_JobDesc), Text(N_X), Text(N_Y), Text(EMAILS)}

AllNames == TextNames \cup {Number(N_2020)}

Forms == {<<>>, F_description, F_x_padded, F_Notes}

Upload(file, form, io) == [uploaded |-> TRUE, file |-> file, form |-> form, io |-> io]

NoUpload == [uploaded |-> FALSE, file |-> NoFile, form |-> <<>>, io |-> AllOk]

RECURSIVE JoinSpace(_)
JoinSpace(tokens) ==
    IF tokens = <<>> THEN <<>>
    ELSE IF Len(tokens) = 1 THEN tokens[1]
    ELSE tokens[1] \o <<" ">> \o JoinSpace(Tail(tokens))

\* the cells read_excel(dtype=str) gives: NaN, or a text of up to n words
Cells(words, n) == {NaN} \cup {Str(JoinSpace(t)) : t \in SeqsUpTo(words, n) \ {<<>>}}

\* the free-text cells of the row workbooks
TextCells ==
    {NaN} \cup {Str(JoinSpace(t)) :
                   t \in {<<W_short>>, <<E_ax>>, <<E_ax, E_Ax>>, <<E_ax, W_short, E_ax>>}}

\* the cells a column may hold: free text under Description, one address elsewhere
CellsOf(name, texts) == IF name = Text(DEFAULT_COLUMN) THEN texts ELSE {Str(E_by)}

RowsOf(h, texts) == {r \in [1..Len(h) -> texts \cup {Str(E_by)}] :
                        \A j \in 1..Len(h) : r[j] \in CellsOf(h[j], texts)}

Files(headers, texts, n) ==
    UNION {{[cols |-> h, rows |-> rs] : rs \in SeqsUpTo(RowsOf(h, texts), n)} : h \in headers}

RowHeaders ==
    {<<Text(DEFAULT_COLUMN)>>, <<Text(N_X), Text(DEFAULT_COLUMN)>>,
     <<Text(EMAILS), Text(DEFAULT_COLUMN)>>}

LifeNames == {Text(DEFAULT_COLUMN), Number(N_2020)}

\* workbooks without data rows, every header row over names
ResolveInputs(names) ==
    {Upload([cols |-> h, rows |-> <<>>], f, AllOk) : h \in Headers(names, MaxCols), f \in Forms}

\* workbooks with data rows under the given header rows
RowInputs(headers) == {Upload(f, <<>>, AllOk) : f \in Files(headers, TextCells, MaxRows)}

\* one row of free text under Description, up to MaxMatches words
DedupInputs(words) ==
    {Upload([cols |-> <<Text(DEFAULT_COLUMN)>>, rows |-> <<<<c>>>>], <<>>, AllOk) :
        c \in Cells(words, MaxMatches)}

\* small workbooks, every failure
LifeInputs(names) ==
    {NoUpload} \cup
    {Upload(f, <<>>, io) :
        f \in Files(Headers(names, MaxLifeCols), {NaN, Str(E_ax)}, MaxLifeRows),
        io \in Failures}

-----------------------------------------------------------------------------
(* Specifications *)

Idle ==
    /\ loc = NoLocals
    /\ ret = NotRun
    /\ art = Absent
    /\ written = NoData

\* the server with no output file yet
Init ==
    /\ inp = NoUpload
    /\ page = "index"
    /\ Idle

IndexPost == \E i \in LifeInputs(LifeNames) : Post(i)

ResetOutput == \E rm \in {"ok", "fail"} : Reset(rm)

Next == IndexPost \/ ResetOutput

Spec == Init /\ [][Next]_vars

\* one POST of a given upload: process_excel as a function of its input
Serve == page = "pending" /\ Post(inp)

InitResolve ==
    /\ inp \in ResolveInputs(AllNames)
    /\ page = "pending"
    /\ Idle

SpecResolve == InitResolve /\ [][Serve]_vars

InitRows ==
    /\ inp \in RowInputs(RowHeaders)
    /\ page = "pending"
    /\ Idle

SpecRows == InitRows /\ [][Serve]_vars

InitResolveText ==
    /\ inp \in ResolveInputs(TextNames)
    /\ page = "pending"
    /\ Idle

SpecResolveText == InitResolveText /\ [][Serve]_vars

InitDedup ==
    /\ inp \in DedupInputs({E_ax, E_Ax, E_by, W_short})
    /\ page = "pending"
    /\ Idle

SpecDedup == InitDedup /\ [][Serve]_vars

-----------------------------------------------------------------------------
(* Vocabulary of the properties *)

\* the POST of inp has been answered and nothing has happened since
Answered == inp.uploaded /\ page \in {"preview", "error", "server_error"}

Cols == inp.file.cols

Rows == inp.file.rows

\* the name process_excel is asked for
Requested == IF Strip(inp.form) # <<>> THEN Strip(inp.form) ELSE DEFAULT_COLUMN

SameCase(name, s) == name.str /\ Lower(name.v) = Lower(s)

SomeEqual == \E j \in 1..Len(Cols) : SameCase(Cols[j], Requested)

\* positions of the columns whose lower-cased name contains hint
HintCols(hint) == {j \in 1..Len(Cols) : Cols[j].str /\ Contains(hint, Lower(Cols[j].v))}

First(S) == CHOOSE j \in S : \A m \in S : j <= m

\* the column the category-by-category scan would give
CategoryPick ==
    IF HintCols(HINT_ORGANISATION) # {} THEN Cols[First(HintCols(HINT_ORGANISATION))]
    ELSE IF HintCols(HINT_INFO) # {} THEN Cols[First(HintCols(HINT_INFO))]
    ELSE Cols[First(HintCols(HINT_DESCRIPTION))]

NoHint ==
    /\ HintCols(HINT_ORGANISATION) = {}
    /\ HintCols(HINT_INFO) = {}
    /\ HintCols(HINT_DESCRIPTION) = {}

RECURSIVE SplitNewline(_)
SplitNewline(s) ==
    IF \A i \in 1..Len(s) : s[i] # "\n" THEN <<s>>
    ELSE LET n == First({i \in 1..Len(s) : s[i] = "\n"})
         IN  <<SubSeq(s, 1, n - 1)>> \o SplitNewline(SubSeq(s, n + 1, Len(s)))

\* the lines of an Emails cell
Parts(s) == IF s = <<>> THEN <<>> ELSE SplitNewline(s)

FirstIndex(q, x) == First({k \in 1..Len(q) : q[k] = x})

\* the matches found in row i, and the value in the Emails column of the frame
Matches(i) == find_emails(RowGet(Cols, Rows[i], loc.description_column))

EmailsValue(i) == loc.df.rows[i][ColumnIndex(loc.df.cols, Text(EMAILS))]

-----------------------------------------------------------------------------
(* Properties *)

\* C1: for a sheet with at least one column, resolution does not fail and
\* the resolved column is one of the sheet's columns.
C1_ResolvedColumnExists ==
    Answered /\ inp.io = AllOk /\ Len(Cols) >= 1
        => ret.kind = "return" /\ \E j \in 1..Len(Cols) : Cols[j] = ret.col

\* C2: when a column equals the requested name regardless of case, the
\* resolved column equals the requested name regardless of case, whatever
\* the other columns are.
C2_ExactMatchWins ==
    Answered /\ inp.io = AllOk /\ SomeEqual
        => ret.kind = "return" /\ SameCase(ret.col, Requested)

\* C3: with no column equal to the requested name, the hints are tried
\* category by category (organisation, info, description) and the first
\* column, in column order, of the first category with a hit is resolved.
C3_CategoryOrder ==
    Answered /\ inp.io = AllOk /\ ~SomeEqual /\ ~NoHint
        => ret.kind = "return" /\ ret.col = CategoryPick

\* C4: with no column equal to the requested name and no column holding a
\* hint, the first column by position is resolved.
C4_FirstColumnFallback ==
    Answered /\ inp.io = AllOk /\ Len(Cols) >= 1 /\ ~SomeEqual /\ NoHint
        => ret.kind = "return" /\ ret.col = Cols[1]

\* C5: the Emails cell of a row is the distinct matches of the row, each
\* once, in the order of their first occurrence, compared as exact
\* strings, joined by newlines.
C5_DedupKeepsFirstOccurrences ==
    Answered /\ ret.kind = "return" =>
        \A i \in 1..Len(Rows) :
            LET m == Matches(i)
                parts == Parts(loc.emails_list[i])
            IN  /\ EmailsValue(i) = Str(loc.emails_list[i])
                /\ {parts[a] : a \in 1..Len(parts)} = {m[k] : k \in 1..Len(m)}
                /\ \A a, b \in 1..Len(parts) : a < b =>
                      /\ parts[a] # parts[b]
                      /\ FirstIndex(m, parts[a]) < FirstIndex(m, parts[b])

\* C5 witness: a row with a repeated address and the same address in another
\* case: the repeat is dropped, both cases are kept.
C5_Witness ==
    /\ Answered
    /\ ret.kind = "return"
    /\ \E i \in 1..Len(Rows) :
          /\ Matches(i) = <<E_ax, E_Ax, E_ax>>
          /\ loc.emails_list[i] = E_ax \o <<"\n">> \o E_Ax

\* C6: once a column is resolved and the files can be written, no error is
\* raised, the Emails column has one value per input row, and a row whose
\* cell is null or holds no match gets the empty string, not a null.
C6_EmptyStringForNoMatch ==
    Answered /\ inp.io = AllOk /\ Len(Cols) >= 1 /\ (\A j \in 1..Len(Cols) : Cols[j].str)
        => /\ ret.kind = "return"
           /\ Len(loc.emails_list) = Len(Rows)
           /\ Len(loc.df.rows) = Len(Rows)
           /\ \A i \in 1..Len(Rows) :
                 LET cell == Rows[i][ColumnIndex(Cols, ret.col)]
                 IN  (cell.null \/ find_emails(cell) = <<>>) => EmailsValue(i) = Str(<<>>)

\* C6 witness: two rows, one with a null cell and one with text without a
\* match, both given the empty string.
C6_Witness ==
    /\ Answered
    /\ ret.kind = "return"
    /\ Len(Rows) = 2
    /\ Rows[1][ColumnIndex(Cols, ret.col)].null
    /\ Rows[2][ColumnIndex(Cols, ret.col)] = Str(W_short)
    /\ EmailsValue(1) = Str(<<>>)
    /\ EmailsValue(2) = Str(<<>>)

\* C7: the output workbook holds every input column in order with its
\* cells unchanged, then Emails as the last column: one column more.
C7_EmailsAppendedLast ==
    Answered /\ ret.kind = "return" /\ art.kind = "xlsx"
        => /\ Len(art.header) = Len(Cols) + 1
           /\ art.header[Len(Cols) + 1] = EMAILS
           /\ \A j \in 1..Len(Cols) : art.header[j] = Cols[j].v
           /\ Len(art.cells) = Len(Rows)
           /\ \A i \in 1..Len(Rows) : \A j \in 1..Len(Cols) :
                 art.cells[i][j] = SheetCell(Rows[i][j])

\* C8: once the data write has succeeded, a failure at any step of the
\* formatting pass is caught: process_excel returns the resolved column and
\* OUTPUT_FILE still holds the data that was written.
C8_FormattingFailureKeepsData ==
    Answered /\ loc # NoLocals /\ inp.io.fmt # "none"
        => /\ ret = Returned(loc.description_column)
           /\ art.kind = "xlsx"
           /\ DataOf(art) = DataOf(ToExcel(loc.df))

\* C9: a sheet with no column gives no result: an error reaches the caller
\* and no column is resolved.
C9_NoColumnsIsAnError ==
    Answered /\ inp.io.read = "ok" /\ Cols = <<>>
        => ret.kind = "raise" /\ ret.col = NoName /\ page = "error"

\* C9 witness: a sheet without columns has been processed.
C9_Witness == Answered /\ Cols = <<>> /\ ret = Raised("IndexError")

\* C10: OUTPUT_FILE is absent, or holds exactly the data of the latest
\* process_excel that reached the data write.
C10_OutputIsLatestDocument ==
    /\ [](\/ art.kind = "absent"
          \/ written.any /\ art.kind = "xlsx" /\ DataOf(art) = written)
    /\ [][page' = "error" => art' = art]_vars

====
